---- MODULE Spec2Model ----
(***************************************************************************)
(* bson-schema-to-typescript: the schema annotation engine of compile.ts   *)
(* (buildTsType, addTsType, hasDecimal128, compileBSON), the configuration *)
(* validation of parseConfig and the top-level run of cli.ts.              *)
(*                                                                         *)
(* JSON values are records [t, s, kids]:                                   *)
(*   t    the runtime shape: "string", "null", "number", "boolean",        *)
(*        "array", "object", and "undefined" for an absent value;          *)
(*   s    the text of a string, as a sequence of tokens (a word or a       *)
(*        separator each), so that concatenation and joining are real;     *)
(*   kids the elements of an array or the entries of an object, in         *)
(*        insertion order, each [k |-> key, v |-> value] (k = "" in an     *)
(*        array).                                                          *)
(***************************************************************************)
EXTENDS Integers, Sequences, FiniteSets, TLC

VARIABLES
    pc,            \* position of the specification's process
    schema,        \* the JSON schema handed to addTsType / compileBSON
    newSchema,     \* addTsType(schema)
    found,         \* hasDecimal128(schema)
    foundNew,      \* hasDecimal128(newSchema)
    bsonType,      \* the marker handed to buildTsType
    tsType,        \* buildTsType(bsonType)
    options,       \* compileBSON's options argument
    mergedOptions, \* compileBSON's mergedOptions
    imports,       \* compileBSON's imports
    call,          \* the arguments of the pending compileJSON call
    output,        \* the text compileJSON resolved with
    result,        \* the text compileBSON resolved with
    config,        \* the text handed to parseConfig, as JSON tokens
    loaded,        \* the Options parseConfig returned
    env,           \* process.env: which of the two variables are set
    configFile,    \* ./bson2ts.json: "absent", "valid" or "malformed"
    schemas,       \* what getAllServerSchemas resolved with
    tasks,         \* the state of each callback of schemas.map
    mainState,     \* the promise of main(): "pending", "fulfilled", "rejected"
    stderr,        \* the errors console.error printed
    files,         \* the schemas whose types were written
    exitCode       \* the exit status of the process, -1 while it runs

treeVars == <<schema, newSchema, found, foundNew>>
mapVars == <<bsonType, tsType>>
compileVars == <<options, mergedOptions, imports, call, output, result>>
configVars == <<config, loaded>>
cliVars == <<env, configFile, schemas, tasks, mainState, stderr, files, exitCode>>
vars == <<pc, treeVars, mapVars, compileVars, configVars, cliVars>>

----------------------------------------------------------------------------
(* JSON values *)

Str(w) == [t |-> "string", s |-> w, kids |-> <<>>]
Word(n) == Str(<<n>>)
Null == [t |-> "null", s |-> <<>>, kids |-> <<>>]
Undefined == [t |-> "undefined", s |-> <<>>, kids |-> <<>>]
Num(n) == [t |-> "number", s |-> <<n>>, kids |-> <<>>]
Bool(b) == [t |-> "boolean", s |-> <<b>>, kids |-> <<>>]
Arr(es) == [t |-> "array", s |-> <<>>, kids |-> [i \in 1..Len(es) |-> [k |-> "", v |-> es[i]]]]
Obj(es) == [t |-> "object", s |-> <<>>, kids |-> es]

IsArray(n) == n.t = "array"
IsObject(n) == n.t = "object"
IsString(n) == n.t = "string"

\* typeof n === "object": objects, arrays and null
TypeofObject(n) == n.t \in {"object", "array", "null"}

Elems(n) == [i \in 1..Len(n.kids) |-> n.kids[i].v]
KeysOf(n) == {n.kids[i].k : i \in 1..Len(n.kids)}
Has(n, key) == IsObject(n) /\ key \in KeysOf(n)
IndexOf(n, key) == CHOOSE i \in 1..Len(n.kids) : n.kids[i].k = key

\* n[key]: the value under key, undefined when absent or n is no object
Get(n, key) == IF Has(n, key) THEN n.kids[IndexOf(n, key)].v ELSE Undefined

\* { ...n, [key]: value }: an existing key keeps its place, a new one goes last
Put(n, key, value) ==
    IF key \in KeysOf(n)
    THEN Obj([i \in 1..Len(n.kids) |->
                IF n.kids[i].k = key THEN [k |-> key, v |-> value] ELSE n.kids[i]])
    ELSE Obj(Append(n.kids, [k |-> key, v |-> value]))

\* a string is truthy unless empty; null and undefined are falsy
Truthy(n) == \/ IsString(n) /\ n.s # <<>>
             \/ n.t \in {"array", "object"}
             \/ n.t = "number"
             \/ n.t = "boolean" /\ n.s = <<"true">>

RECURSIVE JoinFrom(_, _, _)
JoinFrom(parts, sep, i) ==
    IF i > Len(parts) THEN <<>>
    ELSE (IF i = 1 THEN <<>> ELSE <<sep>>)
         \o (IF parts[i].t \in {"null", "undefined"} THEN <<>> ELSE parts[i].s)
         \o JoinFrom(parts, sep, i + 1)

\* Array.prototype.join: null and undefined elements contribute the empty string
Join(parts, sep) == Str(JoinFrom(parts, sep, 1))

----------------------------------------------------------------------------
(* compile.ts: the type table, buildTsType, addTsType, hasDecimal128 *)

bsonToTs == [number |-> "number", string |-> "string", bool |-> "boolean",
             date |-> "Date", null |-> "null", decimal |-> "Decimal128"]

RECURSIVE buildTsType(_)
buildTsType(b) ==
    IF IsArray(b)
    THEN Join([i \in 1..Len(b.kids) |-> buildTsType(b.kids[i].v)], "|")
    ELSE IF ~IsString(b) THEN Null
    ELSE IF Len(b.s) = 1 /\ b.s[1] \in DOMAIN bsonToTs
         THEN Word(bsonToTs[b.s[1]])
         ELSE Null

RECURSIVE addTsType(_)

\* the reduce without `...acc`: only the last entry survives
ReduceEntriesNoSpread(v) ==
    IF v.kids = <<>> THEN Obj(<<>>)
    ELSE Obj(<<[k |-> v.kids[Len(v.kids)].k, v |-> addTsType(v.kids[Len(v.kids)].v)]>>)

\* Object.entries(v).reduce((acc, [key, value]) => ({...acc, [key]: addTsType(value)}), {})
ReduceEntries(v) ==
    LET RECURSIVE Step(_, _)
        Step(acc, i) ==
            IF i > Len(v.kids) THEN acc
            ELSE Step(Put(acc, v.kids[i].k, addTsType(v.kids[i].v)), i + 1)
    IN Step(Obj(<<>>), 1)

\* the guard without `!isEnum`
WithTsTypeIgnoringEnum(n, isEnum, hint) ==
    IF Truthy(hint) THEN Put(n, "tsType", hint) ELSE n

\* the hint without `...schema`
WithTsTypeAlone(n, isEnum, hint) ==
    IF ~isEnum /\ Truthy(hint) THEN Obj(<<[k |-> "tsType", v |-> hint]>>) ELSE n

\* !isEnum && tsType ? { ...schema, tsType } : schema
WithTsType(n, isEnum, hint) ==
    IF ~isEnum /\ Truthy(hint) THEN Put(n, "tsType", hint) ELSE n

addTsType(n) ==
    IF IsArray(n)
    THEN Arr([i \in 1..Len(n.kids) |-> addTsType(n.kids[i].v)])
    ELSE IF IsObject(n)
    THEN LET marker == IF Has(n, "bsonType") THEN Get(n, "bsonType") ELSE Undefined
             isEnum == Has(n, "enum")
             hint   == buildTsType(marker)
         IN ReduceEntries(WithTsType(n, isEnum, hint))
    ELSE n

Includes(a, value) == \E i \in 1..Len(a.kids) : a.kids[i].v = value

RECURSIVE hasDecimal128(_)
EntryHasDecimal128(key, value) ==
    IF key = "bsonType" /\ value = Word("decimal") THEN TRUE
    ELSE IF key = "bsonType" /\ IsArray(value) THEN Includes(value, Word("decimal"))
    ELSE IF TypeofObject(value) THEN hasDecimal128(value)
    ELSE FALSE

hasDecimal128(n) ==
    IF n.t = "null" \/ ~TypeofObject(n) THEN FALSE
    ELSE IF IsArray(n) THEN \E i \in 1..Len(n.kids) : hasDecimal128(n.kids[i].v)
    ELSE \E i \in 1..Len(n.kids) : EntryHasDecimal128(n.kids[i].k, n.kids[i].v)

----------------------------------------------------------------------------
(* The schemas checked: every JSON tree of at most MaxNodes nodes over the  *)
(* reserved keys, one ordinary key and one name of each kind.              *)

MaxNodes == 4

SchemaKeys == <<"bsonType", "enum", "tsType", "x">>
LeafNames == {"decimal", "number", "bogus"}
Leaves == {Word(n) : n \in LeafNames} \cup {Null, Arr(<<>>), Obj(<<>>)}

\* the strictly increasing sequences of m key positions
RECURSIVE KeyChoices(_, _)
KeyChoices(m, from) ==
    IF m = 0 THEN {<<>>}
    ELSE UNION {{<<i>> \o c : c \in KeyChoices(m - 1, i + 1)} : i \in from..Len(SchemaKeys)}

\* the object with the values f under the keys at the positions c
ObjectOf(f, c) == Obj([i \in 1..Len(f) |-> [k |-> SchemaKeys[c[i]], v |-> f[i]]])

\* the objects whose values are the sequences of fs of length m
ObjectsOver(fs, m) ==
    {ObjectOf(p[1], p[2]) : p \in {f \in fs : Len(f) = m} \X KeyChoices(m, 1)}

RECURSIVE ObjectsUpTo(_, _)
ObjectsUpTo(fs, m) ==
    IF m = 0 THEN {} ELSE ObjectsOver(fs, m) \cup ObjectsUpTo(fs, m - 1)

\* the sequences of trees of k nodes in all whose first tree has at most j nodes
RECURSIVE ForestsUpTo(_, _, _, _)
ForestsUpTo(ts, fs, k, j) ==
    IF j = 0 THEN {}
    ELSE {<<p[1]>> \o p[2] : p \in ts[j] \X (IF j = k THEN {<<>>} ELSE fs[k - j])}
         \cup ForestsUpTo(ts, fs, k, j - 1)

\* ts[k]: the trees of k nodes; fs[k]: the sequences of trees of k nodes in all
RECURSIVE TreeTable(_, _, _)
TreeTable(n, ts, fs) ==
    LET k   == Len(ts) + 1
        tk  == IF k = 1 THEN Leaves
               ELSE {Arr(f) : f \in fs[k - 1]} \cup ObjectsUpTo(fs[k - 1], Len(SchemaKeys))
        ts2 == Append(ts, tk)
    IN IF k > n THEN [ts |-> ts, fs |-> fs]
       ELSE TreeTable(n, ts2, Append(fs, ForestsUpTo(ts2, fs, k, k)))

\* the children of the schemas checked: every sequence of trees of fewer
\* than MaxNodes nodes in all
SchemaForests == LET tab == TreeTable(MaxNodes - 1, <<>>, <<>>)
                 IN UNION {tab.fs[k] : k \in 1..(MaxNodes - 1)}

\* x is a tree of at most MaxNodes nodes
IsSchema(x) ==
    \/ x \in Leaves
    \/ \E f \in SchemaForests :
          \/ x = Arr(f)
          \/ /\ Len(f) <= Len(SchemaKeys)
             /\ \E c \in KeyChoices(Len(f), 1) : x = ObjectOf(f, c)

----------------------------------------------------------------------------
(* Spec: the three tree functions applied to one schema *)

MapIdle == bsonType = Undefined /\ tsType = Undefined
TreeIdle == schema = Undefined /\ newSchema = Undefined /\ found = FALSE /\ foundNew = FALSE
CompileIdle ==
    /\ options = Undefined
    /\ mergedOptions = Undefined
    /\ imports = Undefined
    /\ call = Undefined
    /\ output = Undefined
    /\ result = Undefined

ConfigIdle == config = <<>> /\ loaded = Undefined
CliIdle ==
    /\ env = [MONGODB_URI |-> FALSE, MONGODB_DB_NAME |-> FALSE]
    /\ configFile = "absent"
    /\ schemas = <<>>
    /\ tasks = <<>>
    /\ mainState = "pending"
    /\ stderr = <<>>
    /\ files = {}
    /\ exitCode = -1

Init ==
    /\ IsSchema(schema)
    /\ pc = "schema"
    /\ newSchema = Undefined
    /\ found = FALSE
    /\ foundNew = FALSE
    /\ MapIdle
    /\ CompileIdle
    /\ ConfigIdle
    /\ CliIdle

Annotate ==
    /\ pc = "schema"
    /\ newSchema' = addTsType(schema)
    /\ pc' = "annotated"
    /\ UNCHANGED <<configVars, cliVars>>
    /\ UNCHANGED <<schema, found, foundNew, mapVars, compileVars>>

Detect ==
    /\ pc = "annotated"
    /\ found' = hasDecimal128(schema)
    /\ pc' = "scanned"
    /\ UNCHANGED <<configVars, cliVars>>
    /\ UNCHANGED <<schema, newSchema, foundNew, mapVars, compileVars>>

DetectAnnotated ==
    /\ pc = "scanned"
    /\ foundNew' = hasDecimal128(newSchema)
    /\ pc' = "rescanned"
    /\ UNCHANGED <<configVars, cliVars>>
    /\ UNCHANGED <<schema, newSchema, found, mapVars, compileVars>>

Next == Annotate \/ Detect \/ DetectAnnotated

Spec == Init /\ [][Next]_vars

----------------------------------------------------------------------------
(* SpecMap: buildTsType applied to one marker, a name or a sequence of names *)

MaxUnion == 3

TypeNames == DOMAIN bsonToTs \cup {"bogus", "objectId"}

RECURSIVE NameSeqs(_)
NameSeqs(n) ==
    IF n = 0 THEN {<<>>}
    ELSE NameSeqs(n - 1)
         \cup {Append(q, Word(name)) : q \in {r \in NameSeqs(n - 1) : Len(r) = n - 1},
                                       name \in TypeNames}

MapInit ==
    /\ bsonType \in {Word(name) : name \in TypeNames} \cup {Arr(q) : q \in NameSeqs(MaxUnion)}
    /\ tsType = Undefined
    /\ pc = "marker"
    /\ TreeIdle
    /\ CompileIdle
    /\ ConfigIdle
    /\ CliIdle

BuildTsType ==
    /\ pc = "marker"
    /\ tsType' = buildTsType(bsonType)
    /\ pc' = "mapped"
    /\ UNCHANGED <<configVars, cliVars>>
    /\ UNCHANGED <<bsonType, treeVars, compileVars>>

MapNext == BuildTsType

SpecMap == MapInit /\ [][MapNext]_vars

----------------------------------------------------------------------------
(* SpecCompile: compileBSON, one action per statement, the external         *)
(* compileJSON resolving with some text or rejecting                       *)

MaxCompileNodes == 2

ImportLine == "import { Decimal128 } from 'bson';"

DEFAULT_OPTIONS == Obj(<<
    [k |-> "$refOptions", v |-> Obj(<<>>)],
    [k |-> "bannerComment", v |-> Arr(<<
        Word("/* eslint-disable */"),
        Word("/* tslint:disable */"),
        Word("/**"),
        Word("* This file was automatically generated by bson-schema-to-typescript."),
        Word("* DO NOT MODIFY IT BY HAND. Instead, modify the source JSONSchema file,"),
        Word("* and run bson-schema-to-typescript to regenerate this file."),
        Word("*/")>>)],
    [k |-> "cwd", v |-> Word("process.cwd()")],
    [k |-> "declareExternallyReferenced", v |-> Bool("true")],
    [k |-> "enableConstEnums", v |-> Bool("true")],
    [k |-> "ignoreMinAndMaxItems", v |-> Bool("false")],
    [k |-> "strictIndexSignatures", v |-> Bool("false")],
    [k |-> "style", v |-> Null],
    [k |-> "unreachableDefinitions", v |-> Bool("false")],
    [k |-> "unknownAny", v |-> Bool("true")]>>)

\* { ...a, ...b }: b's entries over a's; spreading undefined or null adds nothing
RECURSIVE SpreadFrom(_, _, _)
SpreadFrom(a, b, i) ==
    IF i > Len(b.kids) THEN a
    ELSE SpreadFrom(Put(a, b.kids[i].k, b.kids[i].v), b, i + 1)

Spread(a, b) == IF IsObject(b) THEN SpreadFrom(a, b, 1) ELSE a

\* [...a, ...b]
Concat(a, b) == Arr(Elems(a) \o Elems(b))

\* the merge with the defaults spread last
MergedDefaultsLast(defaults, given) == Spread(Spread(Obj(<<>>), given), defaults)

\* { ...DEFAULT_OPTIONS, ...options }
Merged(defaults, given) == Spread(Spread(Obj(<<>>), defaults), given)

\* the options a caller passes: none, or any of a banner, a flag that differs
\* from its default and a key the defaults do not have (cli.ts adds prettier)
BannerChoices == {Arr(<<>>), Arr(<<Word("// generated")>>),
                  Arr(<<Word("/* a */"), Word("/* b */")>>)}
CallerOptions ==
    {Undefined} \cup
    {Obj(b \o e \o p) :
        b \in {<<>>} \cup {<<[k |-> "bannerComment", v |-> c]>> : c \in BannerChoices},
        e \in {<<>>, <<[k |-> "enableConstEnums", v |-> Bool("false")]>>},
        p \in {<<>>, <<[k |-> "prettier", v |-> Undefined]>>,
                <<[k |-> "prettier", v |-> Obj(<<>>)]>>}}

CompileSchemas ==
    LET tab == TreeTable(MaxCompileNodes, <<>>, <<>>)
    IN {x \in UNION {tab.ts[k] : k \in 1..MaxCompileNodes} : IsObject(x)}

GeneratedTexts == {Str(<<>>), Word("export interface Generated {}")}

CompileInit ==
    /\ schema \in CompileSchemas
    /\ options \in CallerOptions
    /\ pc = "compileBSON"
    /\ newSchema = Undefined
    /\ found = FALSE
    /\ foundNew = FALSE
    /\ mergedOptions = Undefined
    /\ imports = Undefined
    /\ call = Undefined
    /\ output = Undefined
    /\ result = Undefined
    /\ MapIdle
    /\ ConfigIdle
    /\ CliIdle

AddTsTypeStep ==
    /\ pc = "compileBSON"
    /\ newSchema' = addTsType(schema)
    /\ pc' = "merge"
    /\ UNCHANGED <<configVars, cliVars>>
    /\ UNCHANGED <<schema, found, foundNew, mapVars, compileVars>>

MergeOptions ==
    /\ pc = "merge"
    /\ mergedOptions' = Merged(DEFAULT_OPTIONS, options)
    /\ pc' = "imports"
    /\ UNCHANGED <<configVars, cliVars>>
    /\ UNCHANGED <<treeVars, mapVars, options, imports, call, output, result>>

ScanImports ==
    /\ pc = "imports"
    /\ found' = hasDecimal128(schema)
    /\ imports' = IF found' THEN Arr(<<Word(ImportLine)>>) ELSE Arr(<<>>)
    /\ pc' = "opts"
    /\ UNCHANGED <<configVars, cliVars>>
    /\ UNCHANGED <<schema, newSchema, foundNew, mapVars, options, mergedOptions,
                   call, output, result>>

CallCompileJSON ==
    /\ pc = "opts"
    /\ call' = [schema  |-> newSchema,
                name    |-> Str(<<>>),
                options |-> Put(mergedOptions, "bannerComment",
                                Join(Elems(Concat(Get(mergedOptions, "bannerComment"),
                                                  imports)), "\n"))]
    /\ pc' = "await"
    /\ UNCHANGED <<configVars, cliVars>>
    /\ UNCHANGED <<treeVars, mapVars, options, mergedOptions, imports, output, result>>

CompileJSONResolves ==
    /\ pc = "await"
    /\ output' \in GeneratedTexts
    /\ pc' = "resolved"
    /\ UNCHANGED <<configVars, cliVars>>
    /\ UNCHANGED <<treeVars, mapVars, options, mergedOptions, imports, call, result>>

CompileJSONRejects ==
    /\ pc = "await"
    /\ pc' = "rejected"
    /\ UNCHANGED <<configVars, cliVars>>
    /\ UNCHANGED <<treeVars, mapVars, compileVars>>

ReturnOutput ==
    /\ pc = "resolved"
    /\ result' = output
    /\ pc' = "returned"
    /\ UNCHANGED <<configVars, cliVars>>
    /\ UNCHANGED <<treeVars, mapVars, options, mergedOptions, imports, call, output>>

CompileNext ==
    \/ AddTsTypeStep
    \/ MergeOptions
    \/ ScanImports
    \/ CallCompileJSON
    \/ CompileJSONResolves
    \/ CompileJSONRejects
    \/ ReturnOutput

SpecCompile == CompileInit /\ [][CompileNext]_vars

----------------------------------------------------------------------------
(* JSON text: a sequence of tokens [kind, text], kind one of "punct",       *)
(* "string", "number" and "word" (true, false, null and anything unquoted) *)

Tok(kind, text) == [kind |-> kind, text |-> text]
Punct(c) == Tok("punct", c)

\* JSON.stringify of a value whose strings are single words
RECURSIVE Stringify(_)
RECURSIVE StringifyKids(_, _)
StringifyKids(n, i) ==
    IF i > Len(n.kids) THEN <<>>
    ELSE (IF i = 1 THEN <<>> ELSE <<Punct(",")>>)
         \o (IF IsObject(n) THEN <<Tok("string", n.kids[i].k), Punct(":")>> ELSE <<>>)
         \o Stringify(n.kids[i].v)
         \o StringifyKids(n, i + 1)

Stringify(n) ==
    IF IsArray(n) THEN <<Punct("[")>> \o StringifyKids(n, 1) \o <<Punct("]")>>
    ELSE IF IsObject(n) THEN <<Punct("{")>> \o StringifyKids(n, 1) \o <<Punct("}")>>
    ELSE IF IsString(n) THEN <<Tok("string", n.s[1])>>
    ELSE IF n.t = "number" THEN <<Tok("number", n.s[1])>>
    ELSE IF n.t = "boolean" THEN <<Tok("word", n.s[1])>>
    ELSE <<Tok("word", "null")>>

\* the parse of the value that starts at token i:
\* [ok, v, next], next the position after it
Failed == [ok |-> FALSE, v |-> Undefined, next |-> 0]
Parsed(v, next) == [ok |-> TRUE, v |-> v, next |-> next]
IsPunctAt(toks, i, c) == i <= Len(toks) /\ toks[i] = Punct(c)

RECURSIVE ParseValue(_, _)
RECURSIVE ParseElements(_, _, _)
RECURSIVE ParseMembers(_, _, _)

\* after "[" or ",": one element, then "," or "]"
ParseElements(toks, i, acc) ==
    LET e == ParseValue(toks, i)
    IN IF ~e.ok THEN Failed
       ELSE IF IsPunctAt(toks, e.next, ",")
       THEN ParseElements(toks, e.next + 1, Append(acc, e.v))
       ELSE IF IsPunctAt(toks, e.next, "]")
       THEN Parsed(Arr(Append(acc, e.v)), e.next + 1)
       ELSE Failed

\* after "{" or ",": one "key": value, then "," or "}"; a repeated key keeps
\* its first place and takes the last value
ParseMembers(toks, i, acc) ==
    IF ~(i + 1 <= Len(toks) /\ toks[i].kind = "string" /\ toks[i + 1] = Punct(":"))
    THEN Failed
    ELSE LET e == ParseValue(toks, i + 2)
         IN IF ~e.ok THEN Failed
            ELSE IF IsPunctAt(toks, e.next, ",")
            THEN ParseMembers(toks, e.next + 1, Put(acc, toks[i].text, e.v))
            ELSE IF IsPunctAt(toks, e.next, "}")
            THEN Parsed(Put(acc, toks[i].text, e.v), e.next + 1)
            ELSE Failed

ParseValue(toks, i) ==
    IF i > Len(toks) THEN Failed
    ELSE IF toks[i].kind = "string" THEN Parsed(Word(toks[i].text), i + 1)
    ELSE IF toks[i].kind = "number" THEN Parsed(Num(toks[i].text), i + 1)
    ELSE IF toks[i].kind = "word"
    THEN IF toks[i].text \in {"true", "false"} THEN Parsed(Bool(toks[i].text), i + 1)
         ELSE IF toks[i].text = "null" THEN Parsed(Null, i + 1)
         ELSE Failed
    ELSE IF toks[i] = Punct("[")
    THEN IF IsPunctAt(toks, i + 1, "]") THEN Parsed(Arr(<<>>), i + 2)
         ELSE ParseElements(toks, i + 1, <<>>)
    ELSE IF toks[i] = Punct("{")
    THEN IF IsPunctAt(toks, i + 1, "}") THEN Parsed(Obj(<<>>), i + 2)
         ELSE ParseMembers(toks, i + 1, Obj(<<>>))
    ELSE Failed

\* JSON.parse: the value, or a SyntaxError (ok = FALSE)
JSONParse(toks) ==
    LET r == ParseValue(toks, 1)
    IN IF r.ok /\ r.next = Len(toks) + 1 THEN r ELSE Failed

----------------------------------------------------------------------------
(* parseConfig and its defaults *)

defaultOptions == Obj(<<
    [k |-> "bannerComment", v |-> Get(DEFAULT_OPTIONS, "bannerComment")],
    [k |-> "enableConstEnums", v |-> Bool("true")],
    [k |-> "ignoreMinAndMaxItems", v |-> Bool("false")],
    [k |-> "strictIndexSignatures", v |-> Bool("false")],
    [k |-> "unknownAny", v |-> Bool("true")],
    [k |-> "path", v |-> Word("src/__generated__")],
    [k |-> "env", v |-> Obj(<<
        [k |-> "MONGODB_URI", v |-> Word("MONGODB_URI")],
        [k |-> "MONGODB_DATABASE", v |-> Word("MONGODB_DATABASE")]>>)]>>)

\* Array.isArray(x) && x.every((e) => typeof e === "string") ? x : default
BannerCommentOf(o) ==
    LET x == Get(o, "bannerComment")
    IN IF IsArray(x) /\ \A i \in 1..Len(x.kids) : IsString(x.kids[i].v)
       THEN x ELSE Get(defaultOptions, "bannerComment")

\* typeof o[name] === "boolean" ? o[name] : default
BooleanOf(o, name) ==
    IF Get(o, name).t = "boolean" THEN Get(o, name) ELSE Get(defaultOptions, name)

\* typeof o[name] === "string" ? o[name] : default[name]
StringOf(o, name, default) ==
    IF IsString(Get(o, name)) THEN Get(o, name) ELSE Get(default, name)

\* env validated as a whole: one wrong name discards both
EnvAllOrNothing(o) ==
    LET e == Get(o, "env")
    IN IF IsObject(e) /\ IsString(Get(e, "MONGODB_URI")) /\ IsString(Get(e, "MONGODB_DATABASE"))
       THEN Obj(<<[k |-> "MONGODB_URI", v |-> Get(e, "MONGODB_URI")],
                  [k |-> "MONGODB_DATABASE", v |-> Get(e, "MONGODB_DATABASE")]>>)
       ELSE Get(defaultOptions, "env")

\* a plain-object env gives each name its string or the default name
EnvOf(o) ==
    LET e == Get(o, "env")
    IN IF IsObject(e)
       THEN Obj(<<[k |-> "MONGODB_URI",
                   v |-> StringOf(e, "MONGODB_URI", Get(defaultOptions, "env"))],
                  [k |-> "MONGODB_DATABASE",
                   v |-> StringOf(e, "MONGODB_DATABASE", Get(defaultOptions, "env"))]>>)
       ELSE Get(defaultOptions, "env")

\* the try block throws on a SyntaxError and on anything but a plain object;
\* the catch block returns the defaults
parseConfig(text) ==
    LET r == JSONParse(text)
    IN IF ~r.ok \/ ~IsObject(r.v) THEN defaultOptions
       ELSE Obj(<<
           [k |-> "bannerComment", v |-> BannerCommentOf(r.v)],
           [k |-> "enableConstEnums", v |-> BooleanOf(r.v, "enableConstEnums")],
           [k |-> "ignoreMinAndMaxItems", v |-> BooleanOf(r.v, "ignoreMinAndMaxItems")],
           [k |-> "strictIndexSignatures", v |-> BooleanOf(r.v, "strictIndexSignatures")],
           [k |-> "unknownAny", v |-> BooleanOf(r.v, "unknownAny")],
           [k |-> "path", v |-> StringOf(r.v, "path", defaultOptions)],
           [k |-> "env", v |-> EnvOf(r.v)]>>)

----------------------------------------------------------------------------
(* SpecConfig: parseConfig applied to one config text *)

\* what a config file may hold under a key: nothing (the empty sequence of
\* entries) or one entry, of the expected type or not
Field(key, values) == {<<>>} \cup {<<[k |-> key, v |-> x]>> : x \in values}

EnvChoices ==
    {Null, Arr(<<>>)} \cup
    {Obj(u \o d) : u \in Field("MONGODB_URI", {Word("DB_URI"), Num("5")}),
                   d \in Field("MONGODB_DATABASE", {Word("DB_NAME"), Null})}

ConfigObjects ==
    {Obj(b \o c \o i \o g \o u \o p \o e) :
        b \in Field("bannerComment",
                    {Arr(<<>>), Arr(<<Word("// generated")>>),
                     Arr(<<Word("// generated"), Num("1")>>), Word("// generated")}),
        c \in Field("enableConstEnums", {Bool("false"), Word("no")}),
        i \in Field("ignoreMinAndMaxItems", {Bool("true"), Num("1")}),
        g \in Field("strictIndexSignatures", {Bool("true"), Null}),
        u \in Field("unknownAny", {Bool("false"), Arr(<<>>)}),
        p \in Field("path", {Word("out"), Num("123")}),
        e \in Field("env", EnvChoices)}

\* texts JSON.parse rejects: nothing, an unclosed object, a trailing comma,
\* an unquoted key, text after the value
MalformedTexts ==
    {<<>>,
     <<Punct("{")>>,
     <<Punct("{"), Tok("string", "path"), Punct(":"), Tok("string", "out")>>,
     <<Punct("{"), Tok("string", "path"), Punct(":"), Tok("string", "out"), Punct(","),
       Punct("}")>>,
     <<Punct("{"), Tok("word", "path"), Punct(":"), Tok("string", "out"), Punct("}")>>,
     <<Punct("{"), Punct("}"), Punct("}")>>,
     <<Punct("["), Punct(","), Punct("]")>>}

\* texts that parse to something other than a plain object
NonObjectTexts ==
    {Stringify(x) : x \in {Null, Num("123"), Bool("true"), Word("path"), Arr(<<>>),
                           Arr(<<Obj(<<[k |-> "path", v |-> Word("out")]>>)>>)}}

ConfigInit ==
    /\ config \in {Stringify(o) : o \in ConfigObjects} \cup MalformedTexts \cup NonObjectTexts
    /\ loaded = Undefined
    /\ pc = "config"
    /\ TreeIdle
    /\ MapIdle
    /\ CompileIdle
    /\ CliIdle

ParseConfig ==
    /\ pc = "config"
    /\ loaded' = parseConfig(config)
    /\ pc' = "loaded"
    /\ UNCHANGED <<config, treeVars, mapVars, compileVars, cliVars>>

ConfigNext == ParseConfig

SpecConfig == ConfigInit /\ [][ConfigNext]_vars

----------------------------------------------------------------------------
(* SpecCli: the run of cli.ts. main() is one promise; every callback of     *)
(* schemas.map is a promise of its own, suspended at its compileBSON call; *)
(* Promise.all rejects with the first callback that rejects; the process   *)
(* ends when nothing is pending.                                           *)

MaxSchemas == 2

\* a collection has no schema, a schema with a title or one without
SchemaKinds == {"none", "titled", "untitled"}

RECURSIVE SchemaLists(_)
SchemaLists(n) ==
    IF n = 0 THEN {<<>>}
    ELSE SchemaLists(n - 1)
         \cup {Append(q, kind) : q \in {r \in SchemaLists(n - 1) : Len(r) = n - 1},
                                 kind \in SchemaKinds}

CliInit ==
    /\ env \in [MONGODB_URI : BOOLEAN, MONGODB_DB_NAME : BOOLEAN]
    /\ configFile \in {"absent", "valid", "malformed"}
    /\ pc = "main"
    /\ schemas = <<>>
    /\ tasks = <<>>
    /\ mainState = "pending"
    /\ stderr = <<>>
    /\ files = {}
    /\ exitCode = -1
    /\ TreeIdle
    /\ MapIdle
    /\ CompileIdle
    /\ ConfigIdle

CliOthers == <<treeVars, mapVars, compileVars, configVars>>

\* main() throws when MONGODB_URI is not set
CheckUri ==
    /\ pc = "main"
    /\ IF env.MONGODB_URI
       THEN pc' = "checkDbName" /\ UNCHANGED mainState
       ELSE pc' = "settled" /\ mainState' = "rejected"
    /\ UNCHANGED <<env, configFile, schemas, tasks, stderr, files, exitCode, CliOthers>>

\* main() throws when MONGODB_DB_NAME is not set
CheckDbName ==
    /\ pc = "checkDbName"
    /\ IF env.MONGODB_DB_NAME
       THEN pc' = "loadConfig" /\ UNCHANGED mainState
       ELSE pc' = "settled" /\ mainState' = "rejected"
    /\ UNCHANGED <<env, configFile, schemas, tasks, stderr, files, exitCode, CliOthers>>

\* loadConfig(): {} without a file, JSON.parse of it otherwise, which throws
\* on a malformed one
LoadConfig ==
    /\ pc = "loadConfig"
    /\ IF configFile = "malformed"
       THEN pc' = "settled" /\ mainState' = "rejected"
       ELSE pc' = "fetch" /\ UNCHANGED mainState
    /\ UNCHANGED <<env, configFile, schemas, tasks, stderr, files, exitCode, CliOthers>>

\* await getAllServerSchemas(...) resolves, and the callbacks of schemas.map
\* run up to their first await: one without a schema returns at once
FetchResolves ==
    /\ pc = "fetch"
    /\ \E list \in SchemaLists(MaxSchemas) :
          /\ schemas' = list
          /\ tasks' = [i \in 1..Len(list) |->
                          IF list[i] = "none" THEN "fulfilled" ELSE "compiling"]
    /\ pc' = "all"
    /\ UNCHANGED <<env, configFile, mainState, stderr, files, exitCode, CliOthers>>

\* await getAllServerSchemas(...) rejects
FetchRejects ==
    /\ pc = "fetch"
    /\ pc' = "settled"
    /\ mainState' = "rejected"
    /\ UNCHANGED <<env, configFile, schemas, tasks, stderr, files, exitCode, CliOthers>>

\* compileBSON resolves for callback i: it throws without a title and writes
\* the file with one
CompileResolves(i) ==
    /\ tasks[i] = "compiling"
    /\ IF schemas[i] = "titled"
       THEN tasks' = [tasks EXCEPT ![i] = "fulfilled"] /\ files' = files \cup {i}
       ELSE tasks' = [tasks EXCEPT ![i] = "rejected"] /\ UNCHANGED files
    /\ UNCHANGED <<pc, env, configFile, schemas, mainState, stderr, exitCode, CliOthers>>

\* compileBSON rejects for callback i
CompileRejects(i) ==
    /\ tasks[i] = "compiling"
    /\ tasks' = [tasks EXCEPT ![i] = "rejected"]
    /\ UNCHANGED <<pc, env, configFile, schemas, mainState, stderr, files, exitCode,
                   CliOthers>>

\* Promise.all rejects as soon as one callback has: main() rejects
AllRejects ==
    /\ pc = "all"
    /\ \E i \in 1..Len(tasks) : tasks[i] = "rejected"
    /\ pc' = "settled"
    /\ mainState' = "rejected"
    /\ UNCHANGED <<env, configFile, schemas, tasks, stderr, files, exitCode, CliOthers>>

\* Promise.all resolves once every callback has: main() resolves
AllResolve ==
    /\ pc = "all"
    /\ \A i \in 1..Len(tasks) : tasks[i] = "fulfilled"
    /\ pc' = "settled"
    /\ mainState' = "fulfilled"
    /\ UNCHANGED <<env, configFile, schemas, tasks, stderr, files, exitCode, CliOthers>>

\* main().catch((error) => console.error(error))
CatchError ==
    /\ pc = "settled"
    /\ mainState = "rejected"
    /\ stderr' = Append(stderr, "error")
    /\ pc' = "handled"
    /\ UNCHANGED <<env, configFile, schemas, tasks, mainState, files, exitCode, CliOthers>>

\* nothing is pending any more: the process ends. No code sets
\* process.exitCode or calls process.exit, and the rejection of main() was
\* handled, so the status is the runtime's 0
Exit ==
    /\ \/ pc = "settled" /\ mainState = "fulfilled"
       \/ pc = "handled"
    /\ \A i \in 1..Len(tasks) : tasks[i] # "compiling"
    /\ exitCode' = 0
    /\ pc' = "exited"
    /\ UNCHANGED <<env, configFile, schemas, tasks, mainState, stderr, files, CliOthers>>

CliNext ==
    \/ CheckUri
    \/ CheckDbName
    \/ LoadConfig
    \/ FetchResolves
    \/ FetchRejects
    \/ \E i \in 1..Len(tasks) : CompileResolves(i)
    \/ \E i \in 1..Len(tasks) : CompileRejects(i)
    \/ AllRejects
    \/ AllResolve
    \/ CatchError
    \/ Exit

SpecCli == CliInit /\ [][CliNext]_vars

----------------------------------------------------------------------------
(* Properties of addTsType and hasDecimal128, checked under Spec *)

Range(f) == {f[i] : i \in DOMAIN f}
KeySeq(n) == [i \in 1..Len(n.kids) |-> n.kids[i].k]
IsScalar(n) == n.t \notin {"array", "object"}
Marker(n) == IF Has(n, "bsonType") THEN Get(n, "bsonType") ELSE Undefined
Annotated == pc \in {"annotated", "scanned", "rescanned"}
Scanned == pc \in {"scanned", "rescanned"}

\* b is a plus, possibly, tsType keys: same shapes, same scalars, same array
\* lengths, no key of a missing from b and no key but tsType new in b
RECURSIVE Additive(_, _)
Additive(a, b) ==
    IF IsArray(a)
    THEN /\ IsArray(b)
         /\ Len(b.kids) = Len(a.kids)
         /\ \A i \in 1..Len(a.kids) : Additive(a.kids[i].v, b.kids[i].v)
    ELSE IF IsObject(a)
    THEN /\ IsObject(b)
         /\ Cardinality(KeysOf(b)) = Len(b.kids)
         /\ KeysOf(a) \subseteq KeysOf(b)
         /\ KeysOf(b) \ KeysOf(a) \subseteq {"tsType"}
         /\ \A key \in KeysOf(a) \ {"tsType"} : Additive(Get(a, key), Get(b, key))
         /\ Has(a, "tsType") =>
              \/ IsString(Get(b, "tsType"))
              \/ Additive(Get(a, "tsType"), Get(b, "tsType"))
    ELSE b = a

\* C1: the annotated schema is the input schema plus tsType keys: at every
\* depth the shapes agree, scalars and null are identical, arrays keep their
\* length and order, and every object keeps exactly its keys, tsType possibly
\* added, each key other than tsType holding the annotation of its input value.
C1_Additivity == Annotated => Additive(schema, newSchema)

\* C1 witness: a nested object under an ordinary key received a hint while
\* its parent kept that key and its other keys.
C1_Witness ==
    /\ Annotated
    /\ Has(schema, "x") /\ Has(schema, "enum")
    /\ Has(Get(schema, "x"), "bsonType")
    /\ ~Has(Get(schema, "x"), "tsType")
    /\ Has(Get(newSchema, "x"), "tsType")

\* every enum node of a keeps its key sequence and its tsType in b, and every
\* other node with a mapped marker, under an enum node too, carries its hint
RECURSIVE EnumKept(_, _)
EnumKept(a, b) ==
    IF IsArray(a) /\ IsArray(b) /\ Len(a.kids) = Len(b.kids)
    THEN \A i \in 1..Len(a.kids) : EnumKept(a.kids[i].v, b.kids[i].v)
    ELSE IF IsObject(a) /\ IsObject(b)
    THEN /\ Has(a, "enum") =>
              /\ KeySeq(b) = KeySeq(a)
              /\ \A key \in KeysOf(a) : Get(b, key).t = Get(a, key).t
              /\ Has(a, "tsType") /\ IsScalar(Get(a, "tsType"))
                   => Get(b, "tsType") = Get(a, "tsType")
         /\ ~Has(a, "enum") /\ Truthy(buildTsType(Marker(a)))
              => Get(b, "tsType") = buildTsType(Marker(a))
         /\ \A key \in KeysOf(a) \cap KeysOf(b) : EnumKept(Get(a, key), Get(b, key))
    ELSE TRUE

\* C2: an object node with an enum key, whatever its value and whatever its
\* bsonType marker, gets no tsType key and keeps the tsType it has (a scalar
\* one identical); the values under it are still annotated.
C2_EnumSuppression == Annotated => EnumKept(schema, newSchema)

\* C2 witness: an enum node with a mapped marker and a tsType of its own.
C2_Witness ==
    /\ Annotated
    /\ Has(schema, "enum")
    /\ Truthy(buildTsType(Marker(schema)))
    /\ Has(schema, "tsType")
    /\ Get(newSchema, "tsType") = Get(schema, "tsType")

IsUnknownName(n) == IsString(n) /\ ~(Len(n.s) = 1 /\ n.s[1] \in DOMAIN bsonToTs)
AllUnknown(m) == \/ IsUnknownName(m)
                 \/ IsArray(m) /\ \A i \in 1..Len(m.kids) : IsUnknownName(m.kids[i].v)

RECURSIVE NoHintForUnknown(_, _)
NoHintForUnknown(a, b) ==
    IF IsArray(a) /\ IsArray(b) /\ Len(a.kids) = Len(b.kids)
    THEN \A i \in 1..Len(a.kids) : NoHintForUnknown(a.kids[i].v, b.kids[i].v)
    ELSE IF IsObject(a) /\ IsObject(b)
    THEN /\ Has(a, "bsonType") /\ AllUnknown(Marker(a)) /\ ~Has(a, "tsType")
              => ~Has(b, "tsType")
         /\ \A key \in KeysOf(a) \cap KeysOf(b) :
              NoHintForUnknown(Get(a, key), Get(b, key))
    ELSE TRUE

\* C4: an object node whose bsonType marker holds only names outside the
\* table (one unknown name, or a sequence of 0, 1, 2 or more of them) gets
\* no tsType key.
C4_EmptyHintGuard == Annotated => NoHintForUnknown(schema, newSchema)

\* some object node reachable through object values and array elements has a
\* bsonType equal to "decimal" or a sequence containing "decimal"
RECURSIVE HasDecimalMarker(_)
HasDecimalMarker(n) ==
    IF IsArray(n) THEN \E i \in 1..Len(n.kids) : HasDecimalMarker(n.kids[i].v)
    ELSE IF IsObject(n)
    THEN \/ Has(n, "bsonType") /\ Get(n, "bsonType") = Word("decimal")
         \/ Has(n, "bsonType") /\ IsArray(Get(n, "bsonType"))
              /\ Includes(Get(n, "bsonType"), Word("decimal"))
         \/ \E i \in 1..Len(n.kids) : HasDecimalMarker(n.kids[i].v)
    ELSE FALSE

\* C5: hasDecimal128 is true exactly when some object node at any depth has
\* a bsonType equal to "decimal" or a sequence containing it, enum or not.
C5_DetectorExact == Scanned => (found <=> HasDecimalMarker(schema))

\* some node that receives a hint already carries a tsType value in which
\* hasDecimal128 finds a decimal marker
RECURSIVE OverwritesDecimal(_)
OverwritesDecimal(n) ==
    IF IsArray(n) THEN \E i \in 1..Len(n.kids) : OverwritesDecimal(n.kids[i].v)
    ELSE IF IsObject(n)
    THEN \/ /\ ~Has(n, "enum")
            /\ Truthy(buildTsType(Marker(n)))
            /\ Has(n, "tsType")
            /\ hasDecimal128(Get(n, "tsType"))
         \/ \E i \in 1..Len(n.kids) : OverwritesDecimal(n.kids[i].v)
    ELSE FALSE

\* C9 as stated: scanning the original schema and scanning the annotated one
\* give the same answer for every tree, a tree with tsType keys included.
C9_ScanEquivalence == pc = "rescanned" => (found <=> foundNew)

\* C9 amended: the annotated schema never needs the import when the original
\* does not, and the two scans agree on every tree in which no tsType value
\* overwritten by a hint holds a decimal marker.
C9_ScanEquivalenceAmended ==
    pc = "rescanned" =>
        /\ foundNew => found
        /\ ~OverwritesDecimal(schema) => (found <=> foundNew)

\* C9 witness: a schema with a tsType of its own that annotation overwrote,
\* the import needed before and after.
C9_Witness ==
    /\ pc = "rescanned"
    /\ found /\ foundNew
    /\ Has(schema, "tsType")
    /\ Get(newSchema, "tsType") # Get(schema, "tsType")
    /\ ~OverwritesDecimal(schema)

\* the members of a union: the tokens of the hint other than the separator
Members(hint) == Range(hint.s) \ {"|"}

\* annotation put on some node of b a hint whose union includes Decimal128
RECURSIVE InjectsDecimal128(_, _)
InjectsDecimal128(a, b) ==
    IF IsArray(a) /\ IsArray(b) /\ Len(a.kids) = Len(b.kids)
    THEN \E i \in 1..Len(a.kids) : InjectsDecimal128(a.kids[i].v, b.kids[i].v)
    ELSE IF IsObject(a) /\ IsObject(b)
    THEN \/ /\ ~Has(a, "enum")
            /\ Truthy(buildTsType(Marker(a)))
            /\ Get(b, "tsType") = buildTsType(Marker(a))
            /\ "Decimal128" \in Members(Get(b, "tsType"))
         \/ \E key \in KeysOf(a) \cap KeysOf(b) :
              InjectsDecimal128(Get(a, key), Get(b, key))
    ELSE FALSE

\* C10: whenever annotation injects a hint that includes Decimal128, for a
\* marker of any JSON shape, hasDecimal128 of the schema is true.
C10_HintImpliesImport == Scanned => (InjectsDecimal128(schema, newSchema) => found)

----------------------------------------------------------------------------
(* Properties of buildTsType, checked under SpecMap *)

\* the mapped names of a sequence of names, the unmapped ones dropped
RECURSIVE MappedFrom(_, _)
MappedFrom(m, i) ==
    IF i > Len(m.kids) THEN <<>>
    ELSE (IF IsUnknownName(m.kids[i].v) THEN <<>>
          ELSE <<bsonToTs[m.kids[i].v.s[1]]>>) \o MappedFrom(m, i + 1)

\* w is the words ws with one separator between neighbours and none elsewhere
IsUnionOf(w, ws) ==
    /\ Len(w) = (IF ws = <<>> THEN 0 ELSE 2 * Len(ws) - 1)
    /\ \A i \in 1..Len(w) : w[i] = (IF i % 2 = 1 THEN ws[(i + 1) \div 2] ELSE "|")

\* C3: on a sequence of names buildTsType gives the mapped names of the
\* known elements, in order, joined by "|": no empty member, no leading,
\* trailing or doubled "|".
C3_UnionDropsUnknown ==
    pc = "mapped" /\ IsArray(bsonType)
        => IsString(tsType) /\ IsUnionOf(tsType.s, MappedFrom(bsonType, 1))

----------------------------------------------------------------------------
(* Properties of compileBSON, checked under SpecCompile *)

Called == pc \in {"await", "resolved", "rejected", "returned"}

\* the banner lines the caller supplied, else the default ones
BannerLines == Elems(IF Has(options, "bannerComment") THEN Get(options, "bannerComment")
                     ELSE Get(DEFAULT_OPTIONS, "bannerComment"))

\* text is the lines, one "\n" between neighbours
IsLinesOf(text, lines) ==
    /\ Len(text) = (IF lines = <<>> THEN 0 ELSE 2 * Len(lines) - 1)
    /\ \A i \in 1..Len(text) :
          text[i] = (IF i % 2 = 1 THEN lines[(i + 1) \div 2].s[1] ELSE "\n")

\* C6: compileJSON receives the annotated schema, an empty name and the
\* caller's options over DEFAULT_OPTIONS, the banner being the merged
\* bannerComment lines joined by newlines with the Decimal128 import as the
\* last line exactly when hasDecimal128(schema); its text is returned as is.
C6_CompilerArguments ==
    /\ Called =>
        /\ call.schema = addTsType(schema)
        /\ call.name = Str(<<>>)
        /\ KeysOf(call.options) = KeysOf(DEFAULT_OPTIONS) \cup
                                  (IF IsObject(options) THEN KeysOf(options) ELSE {})
        /\ \A key \in KeysOf(call.options) \ {"bannerComment"} :
              Get(call.options, key) = (IF Has(options, key) THEN Get(options, key)
                                        ELSE Get(DEFAULT_OPTIONS, key))
        /\ IsString(Get(call.options, "bannerComment"))
        /\ IsLinesOf(Get(call.options, "bannerComment").s,
                     BannerLines \o (IF hasDecimal128(schema) THEN <<Word(ImportLine)>>
                                     ELSE <<>>))
    /\ pc = "returned" => result = output

\* C6 witness: a caller's banner and flag reached the compiler with the
\* import line last, a key the defaults lack went through, text came back.
C6_Witness ==
    /\ pc = "returned"
    /\ result = Word("export interface Generated {}")
    /\ hasDecimal128(schema)
    /\ Has(options, "bannerComment") /\ Has(options, "prettier")
    /\ Len(BannerLines) = 2
    /\ Get(call.options, "bannerComment").s =
           <<"/* a */", "\n", "/* b */", "\n", ImportLine>>
    /\ Get(call.options, "enableConstEnums") = Bool("false")

----------------------------------------------------------------------------
(* Properties of parseConfig, checked under SpecConfig *)

\* the value the file gives a field: undefined unless the text parses to a
\* plain object that has it
FileValue(path) ==
    LET r == JSONParse(config)
        top == IF r.ok /\ IsObject(r.v) THEN r.v ELSE Undefined
    IN IF Len(path) = 1 THEN Get(top, path[1]) ELSE Get(Get(top, path[1]), path[2])

At(o, path) == IF Len(path) = 1 THEN Get(o, path[1]) ELSE Get(Get(o, path[1]), path[2])

BooleanFields == {"enableConstEnums", "ignoreMinAndMaxItems", "strictIndexSignatures",
                  "unknownAny"}
RecognisedFields ==
    {<<"bannerComment">>, <<"path">>, <<"env", "MONGODB_URI">>, <<"env", "MONGODB_DATABASE">>}
    \cup {<<name>> : name \in BooleanFields}

HasExpectedType(path, x) ==
    IF path = <<"bannerComment">>
    THEN IsArray(x) /\ \A i \in 1..Len(x.kids) : IsString(x.kids[i].v)
    ELSE IF Len(path) = 1 /\ path[1] \in BooleanFields THEN x.t = "boolean"
    ELSE IsString(x)

\* C7: parseConfig returns for every text, and every recognised field of the
\* result is the file's value when that has the expected type and the
\* default otherwise, whatever the other fields hold; a text that is not
\* JSON or not a plain object gives the defaults.
C7_FieldByField ==
    pc = "loaded" =>
        /\ KeySeq(loaded) = KeySeq(defaultOptions)
        /\ KeySeq(Get(loaded, "env")) = KeySeq(Get(defaultOptions, "env"))
        /\ \A path \in RecognisedFields :
              At(loaded, path) = (IF HasExpectedType(path, FileValue(path))
                                  THEN FileValue(path) ELSE At(defaultOptions, path))
        /\ (~JSONParse(config).ok \/ ~IsObject(JSONParse(config).v)) => loaded = defaultOptions

\* C7 witness: a file with a wrong-typed path, a wrong-typed env name and a
\* well-typed flag and env name: the good values are kept beside the defaults.
C7_Witness ==
    /\ pc = "loaded"
    /\ FileValue(<<"path">>) = Num("123")
    /\ Get(loaded, "path") = Word("src/__generated__")
    /\ FileValue(<<"env", "MONGODB_URI">>) = Num("5")
    /\ At(loaded, <<"env", "MONGODB_URI">>) = Word("MONGODB_URI")
    /\ At(loaded, <<"env", "MONGODB_DATABASE">>) = Word("DB_NAME")
    /\ Get(loaded, "enableConstEnums") = Bool("false")

----------------------------------------------------------------------------
(* Properties of the run of cli.ts, checked under SpecCli *)

\* C8: when the run ends after a fatal error (a missing environment
\* variable, a schema without a title, a failed compile), the error was
\* printed and the exit status is not zero.
C8_FatalExitsNonZero ==
    pc = "exited" /\ mainState = "rejected" => stderr # <<>> /\ exitCode # 0

====
